---------------------------- MODULE Spec2Model ----------------------------
(***************************************************************************)
(* A model of MiningPoolMatcher.py: the hex decoder (convert_script), the  *)
(* pool matcher (match_pool_in_columns), the sanitizer (sanitize_string)   *)
(* and the batch driver (process_data) with its status-indicator thread    *)
(* (loading_spinner).                                                      *)
(*                                                                         *)
(* A Python str is a sequence of code points (integers), a bytes object a  *)
(* sequence of integers 0..255.  A Python value is a record [t, s]: t is   *)
(* the type's name, s the text of a str (empty for the other types).       *)
(***************************************************************************)
EXTENDS Integers, Sequences, FiniteSets, TLC

VARIABLES
    pc,            \* position of the main thread
    input_script,  \* convert_script: its argument
    decoded,       \* convert_script: its outcome
    decoded_str,   \* match_pool_in_columns: its first argument
    pool_data,     \* the tag configuration, in iteration order
    matched,       \* the (name, link) pair found for the record at hand
    value,         \* sanitize_string: its argument
    once,          \* sanitize_string(value)
    twice,         \* sanitize_string(sanitize_string(value))
    source_df,     \* process_data: the table as it was passed in
    merged_df,     \* process_data: the table, augmented in place
    pool_names,    \* process_data: the list pool_names
    pool_links,    \* process_data: the list pool_links
    extracted_df,  \* process_data: the projected table
    warned,        \* process_data: the missing-columns warning was printed
    stop_event,    \* the threading.Event shared with the spinner thread
    sp_pc,         \* position of the spinner thread
    symbol,        \* spinner: index of the frame last written
    excel_file,    \* what output_excel holds
    csv_file       \* what output_csv holds

vars == <<pc, input_script, decoded, decoded_str, pool_data, matched, value,
          once, twice, source_df, merged_df, pool_names, pool_links,
          extracted_df, warned, stop_event, sp_pc, symbol, excel_file,
          csv_file>>

convertVars == <<input_script, decoded>>
matchVars == <<decoded_str, pool_data, matched>>
sanitizeVars == <<value, once, twice>>
tableVars == <<source_df, merged_df, pool_names, pool_links, extracted_df,
               warned, excel_file, csv_file>>
threadVars == <<stop_event, sp_pc, symbol>>

---------------------------------------------------------------------------
(* Bounds of the model.                                                    *)

MaxHexLen == 4
MaxTextLen == 3
MaxTags == 2
MaxStrLen == 3
MaxRows == 3
MaxFairRows == 1

---------------------------------------------------------------------------
(* Python values and string literals.                                      *)

Str(s) == [t |-> "str", s |-> s]
NaN == [t |-> "float", s |-> <<>>]
None == [t |-> "NoneType", s |-> <<>>]
Unset == [t |-> "unset", s |-> <<>>]

SeqsUpTo(S, n) == UNION {[1..k -> S] : k \in 0..n}

\* Python's `sub in text` on two str.
StrIn(sub, text) ==
    \E k \in 0..(Len(text) - Len(sub)) : SubSeq(text, k + 1, k + Len(sub)) = sub

\* "Error"
ErrorLiteral == <<69, 114, 114, 111, 114>>
\* "Error: "
ErrorPrefix == <<69, 114, 114, 111, 114, 58, 32>>
\* binascii.Error("Odd-length string")
OddLengthMsg ==
    <<79, 100, 100, 45, 108, 101, 110, 103, 116, 104, 32, 115, 116, 114, 105,
      110, 103>>
\* binascii.Error("Non-hexadecimal digit found")
NonHexMsg ==
    <<78, 111, 110, 45, 104, 101, 120, 97, 100, 101, 99, 105, 109, 97, 108,
      32, 100, 105, 103, 105, 116, 32, 102, 111, 117, 110, 100>>
\* ValueError("string argument should contain only ASCII characters")
NonAsciiMsg ==
    <<115, 116, 114, 105, 110, 103, 32, 97, 114, 103, 117, 109, 101, 110,
      116, 32, 115, 104, 111, 117, 108, 100, 32, 99, 111, 110, 116, 97, 105,
      110, 32, 111, 110, 108, 121, 32, 65, 83, 67, 73, 73, 32, 99, 104, 97,
      114, 97, 99, 116, 101, 114, 115>>
\* "argument should be bytes, buffer or ASCII string, not "
NotStrMsgHead ==
    <<97, 114, 103, 117, 109, 101, 110, 116, 32, 115, 104, 111, 117, 108,
      100, 32, 98, 101, 32, 98, 121, 116, 101, 115, 44, 32, 98, 117, 102,
      102, 101, 114, 32, 111, 114, 32, 65, 83, 67, 73, 73, 32, 115, 116, 114,
      105, 110, 103, 44, 32, 110, 111, 116, 32>>
\* "'float'" and "'NoneType'"
TypeNameQuoted(v) ==
    IF v.t = "float" THEN <<39, 102, 108, 111, 97, 116, 39>>
    ELSE <<39, 78, 111, 110, 101, 84, 121, 112, 101, 39>>
\* TypeError(f"argument should be bytes, buffer or ASCII string, not '{type}'")
NotStrMsg(v) == NotStrMsgHead \o TypeNameQuoted(v)

---------------------------------------------------------------------------
(* binascii.unhexlify and binascii.hexlify, as convert_script calls them.  *)

IsHexDigit(c) ==
    \/ (48 <= c /\ c <= 57)
    \/ (97 <= c /\ c <= 102)
    \/ (65 <= c /\ c <= 70)

\* The value of one hex digit: '0'..'9', 'a'..'f', 'A'..'F'.
HexDigitValue(c) ==
    IF 48 <= c /\ c <= 57 THEN c - 48
    ELSE IF 97 <= c /\ c <= 102 THEN c - 87
    ELSE c - 55

\* A faulty variant: hexlify writing upper-case digits, "0123456789ABCDEF".
HexDigitsUpper ==
    <<48, 49, 50, 51, 52, 53, 54, 55, 56, 57, 65, 66, 67, 68, 69, 70>>

\* "0123456789abcdef"
HexDigitsLower ==
    <<48, 49, 50, 51, 52, 53, 54, 55, 56, 57, 97, 98, 99, 100, 101, 102>>

\* unhexlify(x): the bytes, or the exception it raises.
unhexlify(x) ==
    IF x.t # "str"
    THEN [ok |-> FALSE, exc |-> "TypeError", msg |-> NotStrMsg(x), bytes |-> <<>>]
    ELSE IF \E i \in 1..Len(x.s) : x.s[i] > 127
    THEN [ok |-> FALSE, exc |-> "ValueError", msg |-> NonAsciiMsg, bytes |-> <<>>]
    ELSE IF Len(x.s) % 2 = 1
    THEN [ok |-> FALSE, exc |-> "binascii.Error", msg |-> OddLengthMsg, bytes |-> <<>>]
    ELSE IF \E i \in 1..Len(x.s) : ~IsHexDigit(x.s[i])
    THEN [ok |-> FALSE, exc |-> "binascii.Error", msg |-> NonHexMsg, bytes |-> <<>>]
    ELSE [ok |-> TRUE, exc |-> "", msg |-> <<>>,
          bytes |-> [i \in 1..(Len(x.s) \div 2) |->
                        16 * HexDigitValue(x.s[2 * i - 1]) + HexDigitValue(x.s[2 * i])]]

\* hexlify(bytes).decode('utf-8'): two lower-case digits per byte.
RECURSIVE hexlify(_)
hexlify(bs) ==
    IF bs = <<>> THEN <<>>
    ELSE <<HexDigitsLower[(Head(bs) \div 16) + 1], HexDigitsLower[(Head(bs) % 16) + 1]>>
         \o hexlify(Tail(bs))

---------------------------------------------------------------------------
(* bytes.decode('utf-8', errors='ignore'): CPython's decoder, with every   *)
(* byte range it reports as an error dropped.                              *)

IsCont(b) == 128 <= b /\ b < 192

\* The second byte of a 3-byte sequence led by ch (0xE0: 0xA0.., 0xED: ..0x9F).
Second3Ok(ch, b) == IsCont(b) /\ ~(IF b < 160 THEN ch = 224 ELSE ch = 237)

\* The second byte of a 4-byte sequence led by ch (0xF0: 0x90.., 0xF4: ..0x8F).
Second4Ok(ch, b) == IsCont(b) /\ ~(IF b < 144 THEN ch = 240 ELSE ch = 244)

RECURSIVE utf8_decode_ignore(_)
utf8_decode_ignore(bs) ==
    IF bs = <<>> THEN <<>>
    ELSE LET ch == Head(bs)
             n == Len(bs)
             from(k) == utf8_decode_ignore(SubSeq(bs, k, n))
         IN  IF ch < 128 THEN <<ch>> \o from(2)
             ELSE IF ch < 194 \/ ch >= 245 THEN from(2)
             ELSE IF ch < 224 THEN
                 IF n < 2 THEN <<>>
                 ELSE IF ~IsCont(bs[2]) THEN from(2)
                 ELSE <<(ch - 192) * 64 + (bs[2] - 128)>> \o from(3)
             ELSE IF ch < 240 THEN
                 IF n < 2 THEN <<>>
                 ELSE IF ~Second3Ok(ch, bs[2]) THEN from(2)
                 ELSE IF n < 3 THEN <<>>
                 ELSE IF ~IsCont(bs[3]) THEN from(3)
                 ELSE <<(ch - 224) * 4096 + (bs[2] - 128) * 64 + (bs[3] - 128)>>
                      \o from(4)
             ELSE
                 IF n < 2 THEN <<>>
                 ELSE IF ~Second4Ok(ch, bs[2]) THEN from(2)
                 ELSE IF n < 3 THEN <<>>
                 ELSE IF ~IsCont(bs[3]) THEN from(3)
                 ELSE IF n < 4 THEN <<>>
                 ELSE IF ~IsCont(bs[4]) THEN from(4)
                 ELSE <<(ch - 240) * 262144 + (bs[2] - 128) * 4096
                        + (bs[3] - 128) * 64 + (bs[4] - 128)>> \o from(5)

---------------------------------------------------------------------------
(* convert_script.                                                         *)

\* A faulty variant: the printable test taken as 32 <= b <= 127.
ascii_decoded_incl(bs) == [i \in 1..Len(bs) |-> IF 32 <= bs[i] /\ bs[i] <= 127 THEN bs[i] ELSE 46]

\* ''.join([chr(b) if 32 <= b < 127 else '.' for b in decoded_bytes])
ascii_decoded(bs) == [i \in 1..Len(bs) |-> IF 32 <= bs[i] /\ bs[i] < 127 THEN bs[i] ELSE 46]

\* A faulty variant: the except branch puts the message in the ASCII view as well.
ErrorViewsDescribed(e) ==
    [raised |-> FALSE, utf8 |-> Str(ErrorPrefix \o e.msg),
     ascii |-> Str(ErrorPrefix \o e.msg), hex |-> Str(ErrorLiteral)]

\* The dict returned from the except branch.
ErrorViews(e) ==
    [raised |-> FALSE, utf8 |-> Str(ErrorPrefix \o e.msg), ascii |-> Str(ErrorLiteral),
     hex |-> Str(ErrorLiteral)]

\* The dict returned from the try branch.
DecodedViews(bs) ==
    [raised |-> FALSE, utf8 |-> Str(utf8_decode_ignore(bs)), ascii |-> Str(ascii_decoded(bs)),
     hex |-> Str(hexlify(bs))]

\* An exception leaving the function (no path of the code does).
Raised == [raised |-> TRUE, utf8 |-> Unset, ascii |-> Unset, hex |-> Unset]

\* The classes `except Exception` catches among those unhexlify raises:
\* binascii.Error is a ValueError, and all three derive from Exception.
CaughtByExceptException == {"TypeError", "ValueError", "binascii.Error"}

\* The outcome of convert_script(input_script).  The inner try of lines 40-43
\* has no failing path: with errors='ignore' decode raises nothing.
convert_script(x) ==
    LET r == unhexlify(x)
    IN  IF r.ok THEN DecodedViews(r.bytes)
        ELSE IF r.exc \in CaughtByExceptException THEN ErrorViews(r)
        ELSE Raised

---------------------------------------------------------------------------
(* The decoder alone: convert_script applied to one input.                 *)

\* '0' '2' '7' 'E' 'a' 'c' 'f' 'g'
HexAlphabet == {48, 50, 55, 69, 97, 99, 102, 103}

ConvertInputs == {Str(s) : s \in SeqsUpTo(HexAlphabet, MaxHexLen)} \cup {NaN, None}

NoTable == [columns |-> {}, rows |-> <<>>]

ConvertIdle == input_script = Unset /\ decoded = Unset
MatchIdle == decoded_str = Unset /\ pool_data = <<>> /\ matched = <<>>
SanitizeIdle == value = Unset /\ once = Unset /\ twice = Unset
TableIdle ==
    /\ source_df = NoTable /\ merged_df = NoTable
    /\ pool_names = <<>> /\ pool_links = <<>>
    /\ extracted_df = NoTable /\ warned = FALSE
    /\ excel_file = NoTable /\ csv_file = NoTable
ThreadIdle == stop_event = FALSE /\ sp_pc = "unstarted" /\ symbol = 0

InitConvert ==
    /\ pc = "call"
    /\ input_script \in ConvertInputs
    /\ decoded = Unset
    /\ MatchIdle /\ SanitizeIdle /\ TableIdle /\ ThreadIdle

Convert ==
    /\ pc = "call"
    /\ decoded' = convert_script(input_script)
    /\ pc' = IF decoded'.raised THEN "raised" ELSE "returned"
    /\ UNCHANGED <<input_script, matchVars, sanitizeVars, tableVars, threadVars>>

NextConvert == Convert

SpecConvert == InitConvert /\ [][NextConvert]_vars


---------------------------------------------------------------------------
(* Claims about the decoder, under SpecConvert.                            *)

HexCharset == (48..57) \cup (97..102) \cup (65..70)

OddLength(x) == Len(x.s) % 2 = 1
HasNonHex(x) == \E i \in 1..Len(x.s) : x.s[i] \notin HexCharset

\* A str that is not an even-length string of hex digits.
Malformed(x) == x.t = "str" /\ (OddLength(x) \/ HasNonHex(x))
WellFormed(x) == x.t = "str" /\ ~OddLength(x) /\ ~HasNonHex(x)

\* view says what is wrong with x: it holds the message of a failure x has.
DescribesFailure(view, x) ==
    /\ view.t = "str"
    /\ \/ OddLength(x) /\ StrIn(OddLengthMsg, view.s)
       \/ HasNonHex(x) /\ StrIn(NonHexMsg, view.s)

\* C1, as stated: convert_script never raises, and for a malformed hex input the
\* UTF-8 view and the ASCII view each describe the failure while the Hex view is
\* exactly "Error".
C1_AsciiViewDescribesFailure ==
    /\ pc # "raised"
    /\ (pc = "returned" /\ Malformed(input_script)) =>
          /\ DescribesFailure(decoded.utf8, input_script)
          /\ DescribesFailure(decoded.ascii, input_script)
          /\ decoded.hex = Str(ErrorLiteral)

\* C1, amended: convert_script never raises, and for a malformed hex input the
\* UTF-8 view is "Error: " followed by a message describing the failure, while
\* the ASCII view and the Hex view are both exactly "Error".
C1_MalformedGivesMarkers ==
    /\ pc # "raised"
    /\ (pc = "returned" /\ Malformed(input_script)) =>
          /\ DescribesFailure(decoded.utf8, input_script)
          /\ SubSeq(decoded.utf8.s, 1, Len(ErrorPrefix)) = ErrorPrefix
          /\ decoded.ascii = Str(ErrorLiteral)
          /\ decoded.hex = Str(ErrorLiteral)

\* A non-hex character in an even-length input has been decoded.
C1_Witness ==
    /\ pc = "returned"
    /\ Malformed(input_script) /\ ~OddLength(input_script)
    /\ decoded.hex = Str(ErrorLiteral)

LowerCased(s) == [i \in 1..Len(s) |-> IF 65 <= s[i] /\ s[i] <= 90 THEN s[i] + 32 ELSE s[i]]

\* C2: for a well-formed hex string H the Hex view is H with every letter
\* lower-cased.
C2_HexViewIsLowerCasedInput ==
    (pc = "returned" /\ WellFormed(input_script)) =>
        decoded.hex = Str(LowerCased(input_script.s))

\* A mixed-case input of two bytes has been decoded.
C2_Witness ==
    /\ pc = "returned"
    /\ WellFormed(input_script)
    /\ Len(input_script.s) = 4
    /\ \E i, j \in 1..4 : input_script.s[i] = 69 /\ input_script.s[j] \in 97..102
    /\ decoded.hex # input_script

\* The value of hex digit c, read off the two digit alphabets.
NibbleOf(c) ==
    CHOOSE k \in 0..15 :
        \/ <<48, 49, 50, 51, 52, 53, 54, 55, 56, 57, 97, 98, 99, 100, 101, 102>>[k + 1] = c
        \/ <<48, 49, 50, 51, 52, 53, 54, 55, 56, 57, 65, 66, 67, 68, 69, 70>>[k + 1] = c

\* Byte i of the bytes that hex string s encodes.
ByteOf(s, i) == 16 * NibbleOf(s[2 * i - 1]) + NibbleOf(s[2 * i])

\* The ASCII view of x has one character per encoded byte: the byte's own
\* character when 32 <= byte < 127, '.' otherwise.
AsciiViewMatchesBytes(x, view) ==
    /\ view.t = "str"
    /\ Len(view.s) = Len(x.s) \div 2
    /\ \A i \in 1..Len(view.s) :
          view.s[i] = IF 32 <= ByteOf(x.s, i) /\ ByteOf(x.s, i) < 127
                      THEN ByteOf(x.s, i) ELSE 46

\* C3, as stated: for every input string H the ASCII view has one character per
\* byte H encodes, the byte's own character or '.'.
C3_AsciiViewForEveryInput ==
    (pc = "returned" /\ input_script.t = "str") =>
        AsciiViewMatchesBytes(input_script, decoded.ascii)

\* C3, amended: for every well-formed hex string H the ASCII view has one
\* character per byte H encodes, the byte's own character when 32 <= byte < 127
\* and '.' otherwise.
C3_AsciiViewForWellFormed ==
    (pc = "returned" /\ WellFormed(input_script)) =>
        AsciiViewMatchesBytes(input_script, decoded.ascii)

\* Two bytes, one printable and one not, have been decoded.
C3_Witness ==
    /\ pc = "returned"
    /\ WellFormed(input_script)
    /\ Len(decoded.ascii.s) = 2
    /\ decoded.ascii.s[1] = 46 /\ ByteOf(input_script.s, 1) = 127
    /\ decoded.ascii.s[2] = 126

---------------------------------------------------------------------------
(* match_pool_in_columns.                                                  *)

\* str.lower(), for code points below U+0100 (every one the model's inputs
\* can hold): 'A'..'Z' and the Latin-1 capitals, U+00D7 excepted.
LowerChar(c) ==
    IF 65 <= c /\ c <= 90 THEN c + 32
    ELSE IF 192 <= c /\ c <= 222 /\ c # 215 THEN c + 32
    ELSE c

lower(s) == [i \in 1..Len(s) |-> LowerChar(s[i])]

\* Lines 83-84: a value that is no str is replaced by str(value), None by "".
\* str(float('nan')) is "nan".
coerce_text(v) ==
    IF v.t = "str" THEN v.s
    ELSE IF v.t = "NoneType" THEN <<>>
    ELSE <<110, 97, 110>>

\* ("", ""): the pair returned when the loop ends without a match.
NoMatch == << <<>>, <<>> >>

\* A faulty variant: the text is searched as it is, only the name lower-cased.
RECURSIVE first_match_text_as_is(_, _)
first_match_text_as_is(text, pool) ==
    IF pool = <<>> THEN NoMatch
    ELSE IF StrIn(lower(Head(pool).name), text)
         THEN <<Head(pool).name, Head(pool).link>>
         ELSE first_match_text_as_is(text, Tail(pool))

\* The loop of lines 86-90 over pool_data.items(), in the dict's order.
RECURSIVE first_match(_, _)
first_match(text, pool) ==
    IF pool = <<>> THEN NoMatch
    ELSE IF StrIn(lower(Head(pool).name), lower(text))
         THEN <<Head(pool).name, Head(pool).link>>
         ELSE first_match(text, Tail(pool))

match_pool_in_columns(v, pool) == first_match(coerce_text(v), pool)

\* Lines 168-171 of process_data: the UTF-8 view is searched, and the ASCII
\* view when the name that came back is falsy (the empty string).
row_match(utf8_decoded, ascii_view, pool) ==
    LET m == match_pool_in_columns(utf8_decoded, pool)
    IN  IF m[1] = <<>> THEN match_pool_in_columns(ascii_view, pool) ELSE m

---------------------------------------------------------------------------
(* The matcher alone: match_pool_in_columns applied to one text and one    *)
(* tag configuration.                                                      *)

Tag(name, link) == [name |-> name, link |-> link]

\* Tags "AB", "b", "a.b", "" and "NaN", with links "1".."5".
TagSamples ==
    { Tag(<<65, 66>>, <<49>>), Tag(<<98>>, <<50>>), Tag(<<97, 46, 98>>, <<51>>),
      Tag(<<>>, <<52>>), Tag(<<78, 97, 78>>, <<53>>) }

TagLists == SeqsUpTo(TagSamples, MaxTags)

\* 'a' 'B' 'b' '.'
TextAlphabet == {97, 66, 98, 46}

MatchTexts == {Str(s) : s \in SeqsUpTo(TextAlphabet, MaxTextLen)} \cup {NaN, None}

InitMatch ==
    /\ pc = "call"
    /\ decoded_str \in MatchTexts
    /\ pool_data \in TagLists
    /\ matched = <<>>
    /\ ConvertIdle /\ SanitizeIdle /\ TableIdle /\ ThreadIdle

Match ==
    /\ pc = "call"
    /\ matched' = match_pool_in_columns(decoded_str, pool_data)
    /\ pc' = "returned"
    /\ UNCHANGED <<decoded_str, pool_data, convertVars, sanitizeVars, tableVars, threadVars>>

NextMatch == Match

SpecMatch == InitMatch /\ [][NextMatch]_vars

---------------------------------------------------------------------------
(* Claims about the matcher, under SpecMatch.                              *)

\* tag's lower-cased name occurs in the lower-cased text.
TagOccursIn(tag, text) == StrIn(LowerCased(tag.name), LowerCased(text))

OccurringTags(pool, text) == {i \in 1..Len(pool) : TagOccursIn(pool[i], text)}

\* The (name, link) of the first tag of pool, in order, that occurs in text.
FirstOccurring(pool, text) ==
    LET M == OccurringTags(pool, text)
    IN  IF M = {} THEN << <<>>, <<>> >>
        ELSE LET i == CHOOSE k \in M : \A j \in M : k <= j
             IN  <<pool[i].name, pool[i].link>>

\* C5: match_pool_in_columns(text, tags) returns the (name, link) of the first
\* tag, in the configuration's order, whose lower-cased name is a substring of
\* the lower-cased text, whatever later tags match; the name is returned in its
\* original case.
C5_FirstMatchingTagWins ==
    (pc = "returned" /\ decoded_str.t = "str") =>
        matched = FirstOccurring(pool_data, decoded_str.s)

\* Two tags occur in the text, the later one the longer match, and the first
\* one, whose case differs from the text's, was returned.
C5_Witness ==
    /\ pc = "returned"
    /\ decoded_str = Str(<<97, 46, 98>>)
    /\ Len(pool_data) = 2
    /\ pool_data[1].name = <<98>> /\ pool_data[2].name = <<97, 46, 98>>
    /\ matched = <<pool_data[1].name, pool_data[1].link>>

---------------------------------------------------------------------------
(* Attribution of one record: convert_script, then lines 168-171.          *)

MaxScriptBytes == 3

\* 'a', 'B', 0x01, 0x80, '.'
AttrBytes == {97, 66, 1, 128, 46}

\* "g0": not hex
NotHexScript == Str(<<103, 48>>)

AttrScripts ==
    {Str(hexlify(bs)) : bs \in SeqsUpTo(AttrBytes, MaxScriptBytes)} \cup {NotHexScript, NaN}

InitAttr ==
    /\ pc = "decode"
    /\ input_script \in AttrScripts
    /\ decoded = Unset
    /\ decoded_str = Unset
    /\ pool_data \in TagLists
    /\ matched = <<>>
    /\ SanitizeIdle /\ TableIdle /\ ThreadIdle

AttrDecode ==
    /\ pc = "decode"
    /\ decoded' = convert_script(input_script)
    /\ pc' = "match"
    /\ UNCHANGED <<input_script, matchVars, sanitizeVars, tableVars, threadVars>>

AttrMatch ==
    /\ pc = "match"
    /\ matched' = row_match(decoded.utf8, decoded.ascii, pool_data)
    /\ pc' = "appended"
    /\ UNCHANGED <<decoded_str, pool_data, convertVars, sanitizeVars, tableVars, threadVars>>

NextAttr == AttrDecode \/ AttrMatch

SpecAttr == InitAttr /\ [][NextAttr]_vars

\* C4: the UTF-8 view is tried first and the ASCII view if and only if no tag
\* matched the UTF-8 view: a tag matching the UTF-8 view gives that match,
\* otherwise a tag matching the ASCII view gives that match, and the result is
\* ("", "") only when no tag matches either view.
C4_AsciiOnlyWhenUtf8Unmatched ==
    pc = "appended" =>
        LET u == decoded.utf8.s
            a == decoded.ascii.s
        IN  /\ matched =
                 IF OccurringTags(pool_data, u) # {} THEN FirstOccurring(pool_data, u)
                 ELSE FirstOccurring(pool_data, a)
            /\ matched = << <<>>, <<>> >> =>
                 (OccurringTags(pool_data, u) = {} /\ OccurringTags(pool_data, a) = {})

---------------------------------------------------------------------------
(* sanitize_string.                                                        *)

\* A faulty variant: the character class written [^\x20-\x7D].
sanitize_string_short(v) ==
    IF v.t = "str" THEN Str(SelectSeq(v.s, LAMBDA c : 32 <= c /\ c <= 125)) ELSE v

\* re.sub(r'[^\x20-\x7E]', '', value) for a str, the value itself otherwise.
sanitize_string(v) ==
    IF v.t = "str" THEN Str(SelectSeq(v.s, LAMBDA c : 32 <= c /\ c <= 126)) ELSE v

\* '\n', 0x1F, ' ', 'A', '~', 0x7F, U+00E9
SanitizeAlphabet == {10, 31, 32, 65, 126, 127, 233}

SanitizeInputs == {Str(s) : s \in SeqsUpTo(SanitizeAlphabet, MaxStrLen)} \cup {NaN, None}

InitSanitize ==
    /\ pc = "call"
    /\ value \in SanitizeInputs
    /\ once = Unset /\ twice = Unset
    /\ ConvertIdle /\ MatchIdle /\ TableIdle /\ ThreadIdle

SanitizeOnce ==
    /\ pc = "call"
    /\ once' = sanitize_string(value)
    /\ pc' = "once"
    /\ UNCHANGED <<value, twice, convertVars, matchVars, tableVars, threadVars>>

SanitizeTwice ==
    /\ pc = "once"
    /\ twice' = sanitize_string(once)
    /\ pc' = "twice"
    /\ UNCHANGED <<value, once, convertVars, matchVars, tableVars, threadVars>>

NextSanitize == SanitizeOnce \/ SanitizeTwice

SpecSanitize == InitSanitize /\ [][NextSanitize]_vars

\* The positions of s holding a character of [0x20, 0x7E].
KeptPositions(s) == {i \in 1..Len(s) : s[i] \in 32..126}

\* out is s with the characters outside [0x20, 0x7E] removed and the others
\* kept in order.
IsSanitized(s, out) ==
    /\ Len(out) = Cardinality(KeptPositions(s))
    /\ \A i \in KeptPositions(s) :
          out[Cardinality({j \in KeptPositions(s) : j <= i})] = s[i]

\* C6: sanitize_string removes from a string every character outside
\* [0x20, 0x7E] and keeps the others in order, returns a value that is no string
\* unchanged, and applying it twice gives what applying it once gives.
C6_SanitizeStripsAndIsIdempotent ==
    /\ pc \in {"once", "twice"} =>
          IF value.t = "str"
          THEN once.t = "str" /\ IsSanitized(value.s, once.s)
          ELSE once = value
    /\ pc = "twice" => twice = once

\* A string with a control character, a '~' and a non-ASCII character has
\* been sanitized twice.
C6_Witness ==
    /\ pc = "twice"
    /\ value = Str(<<10, 126, 233>>)
    /\ once = Str(<<126>>)

---------------------------------------------------------------------------
(* process_data and loading_spinner.  A table is [columns, rows]: rows    *)
(* is a sequence of functions from the column names to Python values, in   *)
(* the DataFrame's row order.                                              *)

\* spinner = ['|', '/', '-', '\\']
spinner == <<124, 47, 45, 92>>

columns_to_extract ==
    {"Mining Pool Name", "Mining Pool Link", "TX hash", "Timestamp", "Date"}

\* [col for col in columns_to_extract if col not in merged_df.columns]
missing_columns(df) == columns_to_extract \ df.columns

\* merged_df[['UTF-8', 'ASCII', 'Hex']] = ...apply(convert_script): each row
\* gets the three views of its own 'Input script'.
with_views(df) ==
    [columns |-> df.columns \cup {"UTF-8", "ASCII", "Hex"},
     rows |-> [i \in 1..Len(df.rows) |->
                 LET d == convert_script(df.rows[i]["Input script"])
                 IN  [c \in df.columns \cup {"UTF-8", "ASCII", "Hex"} |->
                        IF c = "UTF-8" THEN d.utf8
                        ELSE IF c = "ASCII" THEN d.ascii
                        ELSE IF c = "Hex" THEN d.hex
                        ELSE df.rows[i][c]]]]

\* merged_df['Mining Pool Name'] = pool_names; ...['Mining Pool Link'] = pool_links
with_pools(df, names, links) ==
    [columns |-> df.columns \cup {"Mining Pool Name", "Mining Pool Link"},
     rows |-> [i \in 1..Len(df.rows) |->
                 [c \in df.columns \cup {"Mining Pool Name", "Mining Pool Link"} |->
                    IF c = "Mining Pool Name" THEN Str(names[i])
                    ELSE IF c = "Mining Pool Link" THEN Str(links[i])
                    ELSE df.rows[i][c]]]]

\* merged_df.applymap(sanitize_string)
applymap_sanitize(df) ==
    [columns |-> df.columns,
     rows |-> [i \in 1..Len(df.rows) |->
                 [c \in df.columns |-> sanitize_string(df.rows[i][c])]]]

\* merged_df[columns_to_extract], every label present
select_columns(df) ==
    [columns |-> columns_to_extract,
     rows |-> [i \in 1..Len(df.rows) |-> [c \in columns_to_extract |-> df.rows[i][c]]]]

\* "6142" (aB), "610142" (a, 0x01, B), "g0" (not hex), "2e" (.)
RowScripts ==
    { Str(<<54, 49, 52, 50>>), Str(<<54, 49, 48, 49, 52, 50>>), NotHexScript,
      Str(<<50, 101>>) }

\* The column sets of the tables passed in: complete, without 'Date', without
\* 'TX hash' and 'Timestamp', without 'Input script'.
InputColumnSets ==
    { {"Input script", "TX hash", "Timestamp", "Date"},
      {"Input script", "TX hash", "Timestamp"},
      {"Input script", "Date"},
      {"TX hash", "Timestamp", "Date"} }

\* Row i of an input table: its script, a 'TX hash' of its own ("t\t1",
\* "t\t2", ...), an empty 'Timestamp' cell (NaN) and a 'Date' ("d").
InputRow(cols, script, i) ==
    [c \in cols |->
        IF c = "Input script" THEN script
        ELSE IF c = "TX hash" THEN Str(<<116, 9, 48 + i>>)
        ELSE IF c = "Timestamp" THEN NaN
        ELSE Str(<<100>>)]

InputTables ==
    { [columns |-> cols, rows |-> [i \in 1..Len(ss) |-> InputRow(cols, ss[i], i)]] :
        cols \in InputColumnSets, ss \in SeqsUpTo(RowScripts, MaxRows) \ {<<>>} }

\* The tag configurations loaded: ("AB", "a.b") and ("b").
PoolConfigs ==
    { <<Tag(<<65, 66>>, <<49>>), Tag(<<97, 46, 98>>, <<51>>)>>,
      <<Tag(<<98>>, <<50>>)>> }

Init ==
    /\ pc = "start_spinner"
    /\ pool_data \in PoolConfigs
    /\ source_df \in InputTables
    /\ merged_df = source_df
    /\ pool_names = <<>> /\ pool_links = <<>>
    /\ extracted_df = NoTable
    /\ warned = FALSE
    /\ excel_file = NoTable /\ csv_file = NoTable
    /\ decoded_str = Unset /\ matched = <<>>
    /\ ConvertIdle /\ SanitizeIdle /\ ThreadIdle

\* Lines 151-153: the event is created clear and the thread started.
StartSpinner ==
    /\ pc = "start_spinner"
    /\ stop_event' = FALSE
    /\ sp_pc' = "test"
    /\ pc' = "decode"
    /\ UNCHANGED <<symbol, convertVars, matchVars, sanitizeVars, tableVars>>

\* Line 156: KeyError without an 'Input script' column; an exception leaving
\* convert_script would leave process_data too.
Decode ==
    /\ pc = "decode"
    /\ IF "Input script" \notin merged_df.columns
       THEN pc' = "raised" /\ UNCHANGED merged_df
       ELSE IF \E i \in 1..Len(merged_df.rows) :
                  convert_script(merged_df.rows[i]["Input script"]).raised
       THEN pc' = "raised" /\ UNCHANGED merged_df
       ELSE pc' = "match" /\ merged_df' = with_views(merged_df)
    /\ UNCHANGED <<source_df, pool_names, pool_links, extracted_df, warned, excel_file,
                   csv_file, convertVars, matchVars, sanitizeVars, threadVars>>

\* A faulty variant: the pair found is put at the front of the lists.
MatchRowPrepend ==
    /\ pc = "match"
    /\ Len(pool_names) < Len(merged_df.rows)
    /\ LET row == merged_df.rows[Len(pool_names) + 1]
           m == row_match(row["UTF-8"], row["ASCII"], pool_data)
       IN  /\ matched' = m
           /\ pool_names' = <<m[1]>> \o pool_names
           /\ pool_links' = <<m[2]>> \o pool_links
    /\ UNCHANGED <<pc, decoded_str, pool_data, source_df, merged_df, extracted_df, warned,
                   excel_file, csv_file, convertVars, sanitizeVars, threadVars>>

\* Lines 163-174: one iteration of the loop over merged_df.iterrows().
MatchRow ==
    /\ pc = "match"
    /\ Len(pool_names) < Len(merged_df.rows)
    /\ LET row == merged_df.rows[Len(pool_names) + 1]
           m == row_match(row["UTF-8"], row["ASCII"], pool_data)
       IN  /\ matched' = m
           /\ pool_names' = Append(pool_names, m[1])
           /\ pool_links' = Append(pool_links, m[2])
    /\ UNCHANGED <<pc, decoded_str, pool_data, source_df, merged_df, extracted_df, warned,
                   excel_file, csv_file, convertVars, sanitizeVars, threadVars>>

\* Lines 177-178, once the loop has ended.
AddColumns ==
    /\ pc = "match"
    /\ Len(pool_names) = Len(merged_df.rows)
    /\ merged_df' = with_pools(merged_df, pool_names, pool_links)
    /\ pc' = "sanitize"
    /\ UNCHANGED <<source_df, pool_names, pool_links, extracted_df, warned, excel_file,
                   csv_file, convertVars, matchVars, sanitizeVars, threadVars>>

\* Line 181.
Sanitize ==
    /\ pc = "sanitize"
    /\ merged_df' = applymap_sanitize(merged_df)
    /\ pc' = "check_missing"
    /\ UNCHANGED <<source_df, pool_names, pool_links, extracted_df, warned, excel_file,
                   csv_file, convertVars, matchVars, sanitizeVars, threadVars>>

\* Lines 189-191: the warning is printed when a column is missing.
CheckMissing ==
    /\ pc = "check_missing"
    /\ warned' = (missing_columns(merged_df) # {})
    /\ pc' = "project"
    /\ UNCHANGED <<source_df, merged_df, pool_names, pool_links, extracted_df, excel_file,
                   csv_file, convertVars, matchVars, sanitizeVars, threadVars>>

\* Line 194: DataFrame.__getitem__ with a list of labels raises KeyError when
\* one of them is no column.
Project ==
    /\ pc = "project"
    /\ IF missing_columns(merged_df) # {}
       THEN pc' = "raised" /\ UNCHANGED extracted_df
       ELSE pc' = "set_stop" /\ extracted_df' = select_columns(merged_df)
    /\ UNCHANGED <<source_df, merged_df, pool_names, pool_links, warned, excel_file,
                   csv_file, convertVars, matchVars, sanitizeVars, threadVars>>

\* Line 197.
SetStop ==
    /\ pc = "set_stop"
    /\ stop_event' = TRUE
    /\ pc' = "join"
    /\ UNCHANGED <<sp_pc, symbol, convertVars, matchVars, sanitizeVars, tableVars>>

\* A faulty variant: process_data goes on without waiting for the thread.
JoinNoWait ==
    /\ pc = "join"
    /\ pc' = "to_excel"
    /\ UNCHANGED <<convertVars, matchVars, sanitizeVars, tableVars, threadVars>>

\* Line 198: join returns once the thread has ended.
Join ==
    /\ pc = "join"
    /\ sp_pc = "terminated"
    /\ pc' = "to_excel"
    /\ UNCHANGED <<convertVars, matchVars, sanitizeVars, tableVars, threadVars>>

\* Line 201.
ToExcel ==
    /\ pc = "to_excel"
    /\ excel_file' = extracted_df
    /\ pc' = "to_csv"
    /\ UNCHANGED <<source_df, merged_df, pool_names, pool_links, extracted_df, warned,
                   csv_file, convertVars, matchVars, sanitizeVars, threadVars>>

\* Line 205.
ToCsv ==
    /\ pc = "to_csv"
    /\ csv_file' = extracted_df
    /\ pc' = "done"
    /\ UNCHANGED <<source_df, merged_df, pool_names, pool_links, extracted_df, warned,
                   excel_file, convertVars, matchVars, sanitizeVars, threadVars>>

\* Line 26: the loop test of loading_spinner.
SpinnerTest ==
    /\ sp_pc = "test"
    /\ IF stop_event
       THEN sp_pc' = "finish" /\ UNCHANGED symbol
       ELSE sp_pc' = "frame" /\ symbol' = 0
    /\ UNCHANGED <<pc, stop_event, convertVars, matchVars, sanitizeVars, tableVars>>

\* Lines 27-30: one frame is written; after the last one the test is made again.
SpinnerFrame ==
    /\ sp_pc = "frame"
    /\ symbol' = symbol + 1
    /\ sp_pc' = IF symbol' = Len(spinner) THEN "test" ELSE "frame"
    /\ UNCHANGED <<pc, stop_event, convertVars, matchVars, sanitizeVars, tableVars>>

\* Line 31: "Processing... Done!" is written and the thread ends.
SpinnerFinish ==
    /\ sp_pc = "finish"
    /\ sp_pc' = "terminated"
    /\ UNCHANGED <<pc, stop_event, symbol, convertVars, matchVars, sanitizeVars, tableVars>>

process_data ==
    \/ StartSpinner \/ Decode \/ MatchRow \/ AddColumns \/ Sanitize \/ CheckMissing
    \/ Project \/ SetStop \/ Join \/ ToExcel \/ ToCsv

loading_spinner == SpinnerTest \/ SpinnerFrame \/ SpinnerFinish

Next == process_data \/ loading_spinner

Spec == Init /\ [][Next]_vars

\* The runs of the tables of at most MaxFairRows rows.
InitFair == Init /\ Len(source_df.rows) <= MaxFairRows

\* Both threads are scheduled: neither is held back for ever while it can run.
FairSpec ==
    InitFair /\ [][Next]_vars /\ WF_vars(process_data) /\ WF_vars(loading_spinner)

---------------------------------------------------------------------------
(* Claims about process_data, under Spec and FairSpec.                     *)

\* The expected output columns the table passed in lacks.
MissingExpected == {"TX hash", "Timestamp", "Date"} \ source_df.columns

\* Line 194 has been executed.
ProjectionDone == pc \in {"set_stop", "join", "to_excel", "to_csv", "done", "raised"}

\* C7: when the input table lacks one of TX hash, Timestamp and Date,
\* process_data warns and continues: the missing column is left out of the
\* projection, and both output files are written with the remaining columns.
C7_MissingColumnWarnsAndContinues ==
    ("Input script" \in source_df.columns /\ MissingExpected # {} /\ ProjectionDone) =>
        /\ warned
        /\ pc # "raised"
        /\ extracted_df.columns = columns_to_extract \ MissingExpected
        /\ pc = "done" => (excel_file = extracted_df /\ csv_file = extracted_df)

\* The views and the pair that row i of the table passed in must get.
ExpectedPair(i) ==
    LET d == convert_script(source_df.rows[i]["Input script"])
    IN  row_match(d.utf8, d.ascii, pool_data)

\* The matching loop has ended.
LoopDone == pc \in {"sanitize", "check_missing", "project", "set_stop", "join",
                    "to_excel", "to_csv", "done"}

\* C8: a decode failure or a failed match on one record never aborts the batch:
\* whatever mix of well-formed, malformed and unattributable scripts the table
\* holds, every record is processed (an abort comes from a missing column
\* only, and not before every record has its pair), and there is one output
\* row per input row, in the input's order.
C8_OneRowPerRecordInOrder ==
    /\ pc = "raised" =>
          \/ "Input script" \notin source_df.columns
          \/ /\ MissingExpected # {}
             /\ Len(pool_names) = Len(source_df.rows)
    /\ LoopDone =>
          /\ Len(pool_names) = Len(source_df.rows)
          /\ Len(pool_links) = Len(source_df.rows)
          /\ Len(merged_df.rows) = Len(source_df.rows)
          /\ \A i \in 1..Len(source_df.rows) :
                <<pool_names[i], pool_links[i]>> = ExpectedPair(i)
    /\ pc \in {"to_excel", "to_csv", "done"} =>
          /\ Len(extracted_df.rows) = Len(source_df.rows)
          /\ \A i \in 1..Len(source_df.rows) :
                /\ extracted_df.rows[i]["TX hash"] = Str(<<116, 48 + i>>)
                /\ extracted_df.rows[i]["Mining Pool Name"] = Str(ExpectedPair(i)[1])
                /\ extracted_df.rows[i]["Mining Pool Link"] = Str(ExpectedPair(i)[2])
    /\ pc = "done" => (excel_file = extracted_df /\ csv_file = extracted_df)

\* A table of a malformed, an attributed and an unattributable script has been
\* written out.
C8_Witness ==
    /\ pc = "done"
    /\ Len(source_df.rows) = 3
    /\ source_df.rows[1]["Input script"] = NotHexScript
    /\ pool_names = << <<>>, <<65, 66>>, <<>> >>
    /\ source_df.rows[3]["Input script"] = Str(<<50, 101>>)
    /\ Len(csv_file.rows) = 3

\* C9: once the batch has been processed process_data sets the stop signal, the
\* spinner thread sees it and ends, and join returns: an output file is written
\* only after the spinner thread has ended, and (both threads being scheduled)
\* from the setting of the signal on both files do get written.
C9_SpinnerEndsBeforeOutput ==
    /\ []((excel_file # NoTable \/ csv_file # NoTable \/ pc \in {"to_excel", "to_csv", "done"})
            => (stop_event /\ sp_pc = "terminated"))
    /\ (pc = "set_stop") ~> (stop_event /\ sp_pc = "terminated" /\ pc = "done"
                              /\ excel_file # NoTable /\ csv_file # NoTable)

\* Both files have been written, after the spinner thread ended.
C9_Witness ==
    /\ pc = "done"
    /\ stop_event /\ sp_pc = "terminated"
    /\ excel_file = extracted_df /\ csv_file = extracted_df
    /\ Len(csv_file.rows) = 1

\* C10: whenever the spinner thread has been started, the stop signal is set on
\* every exit path of process_data, the paths where a step raises included: when
\* process_data has ended, normally or by an exception, the signal is set.
C10_StopSetOnEveryExit ==
    (sp_pc # "unstarted" /\ pc \in {"done", "raised"}) => stop_event

=============================================================================
